---- MODULE Spec2Model ----
(***************************************************************************)
(* Workflow controller of the 9-step writing SOP                           *)
(* (server/routes/workflow.py over server/services/db_service.py).         *)
(*                                                                         *)
(* One writing task is modelled.  Requests are served by coroutines on one *)
(* event loop: the db_service calls are synchronous, so a request runs     *)
(* atomically up to its `await workflow_engine.execute_step_N(...)` and    *)
(* atomically again from the handler's return to the response.             *)
(* Texts are abstracted to tokens; timestamps are left out.                *)
(***************************************************************************)
EXTENDS Integers, Sequences, FiniteSets, TLC

VARIABLES
    task,   \* the writing_tasks row
    pc,     \* per request slot: "idle" | "await" (suspended in the step handler)
    req,    \* per request slot: the call being served and its local `task` snapshot
    resp,   \* per request slot: the response of the last call of the slot
    calls,  \* number of execute / confirm / abort calls issued so far
    last,   \* the most recent event: which slot moved, and how
    parked, \* history: the checkpoint steps whose handler has run and whose
            \* output was recorded, with no confirmation of that step since
    personal_materials, \* the personal_materials table
    retrieval,          \* the last material retrieval: the call and what it returned
    style_call,         \* the last style resolution: its inputs and what it resolved
    curation,           \* the last material-processor call: its input and output lists
    style_samples,      \* the style_samples table: sample id -> row
    retry               \* one call through the db_retry wrapper

wfVars == <<task, pc, req, resp, calls, last, parked>>
libVars == <<personal_materials, retrieval, style_call, curation, style_samples, retry>>
vars == <<task, pc, req, resp, calls, last, parked,
          personal_materials, retrieval, style_call, curation, style_samples, retry>>

\* ------------------------------------------------------------------ bounds
MaxCalls == 2
MaxProcs == 2

\* --------------------------------------------------------------- constants
NumSteps == 9

Procs == 1..MaxProcs

\* WORKFLOW_STEPS: the step ids with is_checkpoint = True.
CheckpointSteps == {2, 3, 5, 6}
WorkflowStepIds == 1..NumSteps
NonCheckpointSteps == WorkflowStepIds \ CheckpointSteps

\* Step numbers a caller may put in the URL: the nine steps and one beyond.
StepArgs == 1..(NumSteps + 1)

\* The steps whose branch reads request.selected_topic.
TopicSteps == {4, 5, 7}

\* Step handlers that reach no suspension point (execute_step_6 awaits nothing).
NoSuspendSteps == {6}

\* ---------------------------------------------------------- dictionaries
EmptyDict == [k \in {} |-> "x"]

Put(d, k, v) == [x \in (DOMAIN d) \cup {k} |-> IF x = k THEN v ELSE d[x]]

\* dict.update(updates)
DictUpdate(d, u) == [x \in (DOMAIN d) \cup (DOMAIN u) |-> IF x \in DOMAIN u THEN u[x] ELSE d[x]]

\* dict.get(k, "") is truthy
Has(d, k) == k \in DOMAIN d /\ d[k] # ""

StepOutputKey(s) ==
    CASE s = 1 -> "step_1_output"
      [] s = 2 -> "step_2_output"
      [] s = 3 -> "step_3_output"
      [] s = 4 -> "step_4_output"
      [] s = 5 -> "step_5_output"
      [] s = 6 -> "step_6_output"
      [] s = 7 -> "step_7_output"
      [] s = 8 -> "step_8_output"
      [] s = 9 -> "step_9_output"
      [] OTHER -> "step_x_output"

StepTag(s) ==
    CASE s = 2 -> "confirmed_step_2"
      [] s = 3 -> "confirmed_step_3"
      [] s = 5 -> "confirmed_step_5"
      [] s = 6 -> "confirmed_step_6"
      [] OTHER -> "confirmed_step_x"

\* ------------------------------------------------------------ the task row
NoTask ==
    [ exists              |-> FALSE,
      current_step        |-> 0,
      status              |-> "none",
      brief_data          |-> EmptyDict,
      knowledge_base_data |-> "",
      knowledge_summary   |-> "",
      draft_content       |-> "",
      final_content       |-> "",
      completed_at        |-> FALSE,
      think_aloud_logs    |-> << >> ]

\* DatabaseService.create_task
create_task(brief_data) ==
    [ NoTask EXCEPT !.exists = TRUE,
                    !.current_step = 1,
                    !.status = "processing",
                    !.brief_data = brief_data ]

NoExtra == [k \in {} |-> "x"]

\* DatabaseService.update_task_step(task_id, step, status, **extra_fields)
update_task_step(t, step, status, extra) ==
    IF ~t.exists THEN t
    ELSE [ t EXCEPT !.current_step = step,
                    !.status = status,
                    !.draft_content = IF "draft_content" \in DOMAIN extra
                                      THEN extra["draft_content"] ELSE @,
                    !.final_content = IF "final_content" \in DOMAIN extra
                                      THEN extra["final_content"] ELSE @,
                    !.completed_at = IF status = "completed" THEN TRUE ELSE @ ]

\* DatabaseService.update_task_to_waiting(task_id, step, output_data)
update_task_to_waiting(t, step, output_data) ==
    IF ~t.exists THEN t
    ELSE [ t EXCEPT !.current_step = step,
                    !.status = "waiting_confirm",
                    !.brief_data = Put(@, StepOutputKey(step), output_data) ]

\* A slip in add_think_aloud_log: the new entry replaces the list.
add_think_aloud_log_replacing(t, step, log_content) ==
    IF ~t.exists THEN t
    ELSE [ t EXCEPT !.think_aloud_logs = << [step |-> step, content |-> log_content] >> ]

\* DatabaseService.add_think_aloud_log(task_id, step, log_content)
add_think_aloud_log(t, step, log_content) ==
    IF ~t.exists THEN t
    ELSE [ t EXCEPT !.think_aloud_logs =
               Append(@, [step |-> step, content |-> log_content]) ]

\* A slip in update_brief_data: the updates replace the stored dict.
update_brief_data_replacing(t, updates) ==
    IF ~t.exists THEN t
    ELSE [ t EXCEPT !.brief_data = updates ]

\* DatabaseService.update_brief_data(task_id, updates)
update_brief_data(t, updates) ==
    IF ~t.exists THEN t
    ELSE [ t EXCEPT !.brief_data = DictUpdate(@, updates) ]

\* A slip in confirm_and_continue: the status is left as it was.
confirm_and_continue_keeping_status(t, confirmation_data) ==
    IF ~t.exists THEN t
    ELSE [ t EXCEPT !.brief_data = Put(@, "user_confirmation", confirmation_data) ]

\* DatabaseService.confirm_and_continue(task_id, confirmation_data)
confirm_and_continue(t, confirmation_data) ==
    IF ~t.exists THEN t
    ELSE [ t EXCEPT !.status = "processing",
                    !.brief_data = Put(@, "user_confirmation", confirmation_data) ]

\* DatabaseService.update_knowledge_data(task_id, knowledge_base_data, knowledge_summary)
update_knowledge_data(t, knowledge_base_data, knowledge_summary) ==
    IF ~t.exists THEN t
    ELSE [ t EXCEPT !.knowledge_base_data = knowledge_base_data,
                    !.knowledge_summary = knowledge_summary ]

\* ----------------------------------------------------------- request slots
NoReq ==
    [ op |-> "none", id |-> 0, step_id |-> 0, topic_given |-> FALSE,
      task |-> NoTask, overlap |-> {}, supplied |-> {} ]

NoResp == [ code |-> "none", is_checkpoint |-> FALSE, outcome |-> "none", gen |-> "none" ]

Response(code, ckpt, outcome, gen) ==
    [ code |-> code, is_checkpoint |-> ckpt, outcome |-> outcome, gen |-> gen ]

NoEvent == [ ev |-> "none", proc |-> 0 ]

Event(ev, p) == [ ev |-> ev, proc |-> p ]

\* AIService.generate_content: the text, or on any provider failure the
\* string "[ERROR] ..." returned as if it were the text.
generate_content(provider_ok) == IF provider_ok THEN "text" ELSE "error_text"

\* No retrieval, style resolution or material processing has been called.
NoCall == [ op |-> "none" ]

InitWorkflow ==
    /\ task = NoTask
    /\ pc = [p \in Procs |-> "idle"]
    /\ req = [p \in Procs |-> NoReq]
    /\ resp = [p \in Procs |-> NoResp]
    /\ calls = 0
    /\ last = NoEvent
    /\ parked = {}

\* No style sample is stored.
NoSamples == [k \in {} |-> "x"]

Init ==
    /\ InitWorkflow
    /\ personal_materials = << >>
    /\ retrieval = NoCall
    /\ style_call = NoCall
    /\ curation = NoCall
    /\ style_samples = NoSamples
    /\ retry = NoCall

\* ------------------------------------------------------------ step handlers
\* Steps whose handler's output is the text returned by generate_content.
GeneratingSteps == {1, 2, 3, 4, 7, 8, 9}

\* workflow_engine.execute_step_N: the result dict the route reads.
\* `rec` is the recommended sample of step 5 ("" when the channel has none).
HandlerResult(s, provider_ok, rec) ==
    [ output            |-> IF s \in GeneratingSteps THEN generate_content(provider_ok)
                            ELSE "text",
      is_checkpoint     |-> s \in {2, 3, 6},
      knowledge_summary |-> IF s = 2 THEN generate_content(provider_ok) ELSE "",
      selected_sample   |-> IF s = 5 THEN rec ELSE "",
      style_profile     |-> IF s = 5
                            THEN (IF rec # "" THEN "recommended_profile" ELSE "channel_profile")
                            ELSE "" ]

\* --------------------------------------------------------- execute_step
\* execute_step, line 285: the unconditional "mark as running" write.
MarkProcessing(t, step_id) == update_task_step(t, step_id, "processing", NoExtra)

\* execute_step, step 4: the topic comes from the request or from brief_data.
TopicAvailable(brief_data, topic_given) == topic_given \/ Has(brief_data, "selected_topic")

\* A slip in line 515: the step after the last one is not clamped.
NextStepUnclamped(step_id) == step_id + 1

\* execute_step, lines 515-516.
NextStep(step_id) == IF step_id < NumSteps THEN step_id + 1 ELSE NumSteps

\* A slip in the final update: "completed" is written from step 7 on.
FinalStatusEarly(step_id) ==
    IF step_id >= NumSteps - 2 THEN "completed" ELSE "processing"

\* execute_step: the status of the final update_task_step.
FinalStatus(step_id) == IF step_id = NumSteps THEN "completed" ELSE "processing"

\* execute_step: the per-step branch, from the handler's return on.
StepWrites(t, s, r) ==
    CASE s = 1 ->
           add_think_aloud_log(
             update_brief_data(t, [step_1_output |-> r.output]), 1, "think_aloud")
      [] s = 2 ->
           update_task_to_waiting(
             add_think_aloud_log(
               update_brief_data(
                 update_knowledge_data(t, r.output, r.knowledge_summary),
                 [step_2_output |-> r.output, knowledge_sources |-> "sources"]),
               2, "think_aloud"),
             2, "waiting_data")
      [] s = 3 ->
           update_task_to_waiting(
             add_think_aloud_log(
               update_brief_data(t, [step_3_output |-> r.output]), 3, "think_aloud"),
             3, "waiting_data")
      [] s = 4 ->
           add_think_aloud_log(
             update_brief_data(t, [step_4_output |-> r.output]), 4, "think_aloud")
      [] s = 5 ->
           \* the handler itself logs once (task_id is passed), the route again
           update_task_to_waiting(
             add_think_aloud_log(
               update_brief_data(
                 add_think_aloud_log(t, 5, "think_aloud"),
                 [ step_5_output        |-> r.output,
                   retrieved_materials  |-> "materials",
                   classified_materials |-> "classified",
                   style_profile        |-> r.style_profile,
                   selected_sample      |-> r.selected_sample,
                   all_samples          |-> "samples" ]),
               5, "think_aloud"),
             5, "waiting_data")
      [] s = 6 ->
           update_task_to_waiting(
             add_think_aloud_log(
               update_brief_data(t, [step_6_output |-> r.output]), 6, "think_aloud"),
             6, "waiting_data")
      [] s = 7 ->
           add_think_aloud_log(
             update_brief_data(
               update_task_step(t, 7, "processing", [draft_content |-> r.output]),
               [step_7_output |-> r.output]),
             7, "think_aloud")
      [] s = 8 ->
           add_think_aloud_log(
             update_brief_data(
               update_task_step(t, 8, "processing", [final_content |-> r.output]),
               [step_8_output |-> r.output]),
             8, "think_aloud")
      [] s = 9 ->
           update_task_step(
             add_think_aloud_log(
               update_brief_data(t, [step_9_output |-> r.output]), 9, "think_aloud"),
             9, "completed", NoExtra)
      [] OTHER -> t

\* A slip: only the checkpoints the docstring of execute_step names return early.
ReturnsAsCheckpointOld(s) == s \in {3, 6}

\* execute_step: steps 2, 3, 5 and 6 return from inside their branch.
ReturnsAsCheckpoint(s) == s \in {2, 3, 5, 6}

\* execute_step: a handler that returned; lines 293-526.
ExecuteSuccess(t, s, r) ==
    LET w == StepWrites(t, s, r)
    IN  IF ReturnsAsCheckpoint(s) \/ r.is_checkpoint
        THEN w
        ELSE update_task_step(w, NextStep(s), FinalStatus(s), NoExtra)

\* A slip in the except branch: the status is set, the log entry forgotten.
ExecuteFailureUnlogged(t, s) == update_task_step(t, s, "error", NoExtra)

\* execute_step: `except Exception`, lines 530-534.
ExecuteFailure(t, s) ==
    add_think_aloud_log(update_task_step(t, s, "error", NoExtra), s, "error")

ExecuteOutcome(t, s, outcome, r) ==
    IF outcome = "ok" THEN ExecuteSuccess(t, s, r) ELSE ExecuteFailure(t, s)

ExecuteResponse(s, outcome, r) ==
    IF outcome = "ok"
    THEN Response("200", ReturnsAsCheckpoint(s), "ok",
                  IF s \in GeneratingSteps THEN r.output ELSE "none")
    ELSE Response("500", FALSE, "raise", "none")

\* A checkpoint handler that returned has run and its output is recorded
\* (update_task_to_waiting); until confirm_and_continue the step is unconfirmed.
ParkedAfterExecute(step_id, outcome) ==
    IF outcome = "ok" /\ step_id \in CheckpointSteps
    THEN parked \cup {step_id} ELSE parked

\* A request is served in the lowest-numbered free slot (slots are interchangeable).
FreeSlot(p) == pc[p] = "idle" /\ \A q \in Procs : pc[q] = "idle" => p <= q

\* The requests in flight on step_id when a new one arrives.
InFlight(step_id) ==
    {req[q].id : q \in {x \in Procs : pc[x] = "await" /\ req[x].step_id = step_id}}

\* The handler's locals: the request and `task = db_service.get_task(task_id)`.
NewReq(op, step_id, topic_given) ==
    [ op |-> op, id |-> calls + 1, step_id |-> step_id, topic_given |-> topic_given,
      task |-> task,
      overlap |-> IF op = "execute" THEN InFlight(step_id) ELSE {},
      supplied |-> {} ]

\* POST /{task_id}/execute-step/{step_id}, up to the handler's await.
ExecuteBegin(p, step_id, topic_given) ==
    /\ FreeSlot(p)
    /\ calls < MaxCalls
    /\ step_id \notin NoSuspendSteps \/ ~task.exists
    /\ topic_given => (step_id \in TopicSteps /\ task.exists)
    /\ calls' = calls + 1
    /\ req' = [req EXCEPT ![p] = NewReq("execute", step_id, topic_given)]
    /\ last' = Event("execute_begin", p)
    /\ IF ~task.exists
       THEN /\ resp' = [resp EXCEPT ![p] = Response("404", FALSE, "rejected", "none")]
            /\ UNCHANGED <<task, pc>>
       ELSE /\ task' = MarkProcessing(task, step_id)
            /\ IF \/ step_id \notin WorkflowStepIds
                  \/ (step_id = 4 /\ ~TopicAvailable(task.brief_data, topic_given))
               THEN /\ resp' = [resp EXCEPT ![p] = Response("400", FALSE, "rejected", "none")]
                    /\ UNCHANGED pc
               ELSE /\ resp' = [resp EXCEPT ![p] = NoResp]
                    /\ pc' = [pc EXCEPT ![p] = "await"]
    /\ UNCHANGED parked
    /\ UNCHANGED libVars

\* The same request when the handler has no suspension point: served in one go.
ExecuteNoSuspend(p, step_id, outcome) ==
    /\ FreeSlot(p)
    /\ calls < MaxCalls
    /\ step_id \in NoSuspendSteps
    /\ task.exists
    /\ calls' = calls + 1
    /\ req' = [req EXCEPT ![p] = NewReq("execute", step_id, FALSE)]
    /\ last' = Event("execute_atomic", p)
    /\ LET r == HandlerResult(step_id, TRUE, "")
       IN  /\ task' = ExecuteOutcome(MarkProcessing(task, step_id), step_id, outcome, r)
           /\ resp' = [resp EXCEPT ![p] = ExecuteResponse(step_id, outcome, r)]
    /\ parked' = ParkedAfterExecute(step_id, outcome)
    /\ UNCHANGED pc
    /\ UNCHANGED libVars

\* The handler returned or raised: the rest of execute_step.
ExecuteFinish(p, outcome, provider_ok, rec) ==
    /\ pc[p] = "await"
    /\ req[p].op = "execute"
    /\ provider_ok \/ req[p].step_id \in GeneratingSteps
    /\ rec = "" \/ req[p].step_id = 5
    /\ outcome = "ok" \/ (provider_ok /\ rec = "")
    /\ LET s == req[p].step_id
           r == HandlerResult(s, provider_ok, rec)
       IN  /\ task' = ExecuteOutcome(task, s, outcome, r)
           /\ resp' = [resp EXCEPT ![p] = ExecuteResponse(s, outcome, r)]
    /\ parked' = ParkedAfterExecute(req[p].step_id, outcome)
    /\ pc' = [pc EXCEPT ![p] = "idle"]
    /\ last' = Event("execute_finish", p)
    /\ UNCHANGED <<req, calls>>
    /\ UNCHANGED libVars

\* ------------------------------------------------------- create_workflow
\* POST /create: create_task (ValueError when the channel slug is unknown,
\* surfaced as 503 after the retries) and the initial log entry.
Create(p, channel_ok) ==
    /\ FreeSlot(p)
    /\ ~task.exists
    /\ req' = [req EXCEPT ![p] = NewReq("create", 0, FALSE)]
    /\ last' = Event("create", p)
    /\ IF channel_ok
       THEN /\ task' = add_think_aloud_log(create_task([brief |-> "brief"]), 0, "system")
            /\ resp' = [resp EXCEPT ![p] = Response("200", FALSE, "ok", "none")]
       ELSE /\ resp' = [resp EXCEPT ![p] = Response("503", FALSE, "rejected", "none")]
            /\ UNCHANGED task
    /\ UNCHANGED <<pc, calls, parked>>
    /\ UNCHANGED libVars

\* ----------------------------------------------------- confirm_checkpoint
\* ConfirmStepRequest: which optional fields the caller filled in.
AllConfirmRequests ==
    [ knowledge_confirmed : BOOLEAN, edited_knowledge : BOOLEAN,
      selected_topic : BOOLEAN, style_confirmed : BOOLEAN,
      user_style_profile : BOOLEAN, selected_sample : BOOLEAN,
      user_materials : BOOLEAN ]

Step2Fields(r) == r.knowledge_confirmed \/ r.edited_knowledge

Step3Fields(r) == r.selected_topic

Step5Fields(r) == r.style_confirmed \/ r.user_style_profile \/ r.selected_sample

Step6Fields(r) == r.user_materials

\* The requests a client sends: the fields of one checkpoint's form, or none.
ConfirmRequests ==
    { r \in AllConfirmRequests :
        Cardinality({g \in {2, 3, 5, 6} :
            \/ (g = 2 /\ Step2Fields(r))
            \/ (g = 3 /\ Step3Fields(r))
            \/ (g = 5 /\ Step5Fields(r))
            \/ (g = 6 /\ Step6Fields(r))}) <= 1 }

\* The user-input fields of ConfirmStepRequest that belong to a checkpoint's form.
StepInputs(current_step) ==
    CASE current_step = 2 -> {"edited_knowledge"}
      [] current_step = 3 -> {"selected_topic"}
      [] current_step = 5 -> {"user_style_profile", "selected_sample"}
      [] current_step = 6 -> {"user_materials"}
      [] OTHER -> {}

\* The inputs for the task's checkpoint that an accepted confirm request carries.
Supplied(t, r) ==
    IF t.exists /\ t.status = "waiting_confirm"
    THEN {f \in StepInputs(t.current_step) : r[f]}
    ELSE {}

\* A slip in line 548: the status check is missing.
ConfirmLegalUnchecked(t) == TRUE

\* confirm_checkpoint, line 548.
ConfirmLegal(t) == t.status = "waiting_confirm"

\* confirm_checkpoint, lines 551-616: the `updates` dict.
ConfirmUpdates(current_step, r) ==
    IF current_step = 2 /\ r.knowledge_confirmed THEN [knowledge_confirmed |-> "true"]
    ELSE IF current_step = 3 /\ r.selected_topic THEN [selected_topic |-> "user_topic"]
    ELSE IF current_step = 5 /\ r.style_confirmed THEN
        DictUpdate(
          DictUpdate([style_confirmed |-> "true"],
                     IF r.selected_sample THEN [selected_sample |-> "user_sample"]
                     ELSE EmptyDict),
          IF r.user_style_profile THEN [user_style_profile |-> "user_profile"]
          ELSE EmptyDict)
    ELSE IF current_step = 6 /\ r.user_materials THEN [user_materials |-> "user_materials"]
    ELSE EmptyDict

\* confirm_checkpoint, lines 551-616: the writes made while collecting `updates`.
ConfirmSideWrites(t, snap, r) ==
    LET cs == snap.current_step
    IN  IF cs = 2 /\ r.knowledge_confirmed THEN
            IF r.edited_knowledge
            THEN add_think_aloud_log(
                   update_knowledge_data(t, "edited_knowledge", snap.knowledge_summary),
                   2, "user_confirm")
            ELSE add_think_aloud_log(t, 2, "user_confirm")
        ELSE IF cs = 3 /\ r.selected_topic THEN add_think_aloud_log(t, 3, "user_confirm")
        ELSE IF cs = 5 /\ r.style_confirmed THEN
            LET t1 == IF r.selected_sample
                      THEN add_think_aloud_log(t, 5, "user_confirm_sample") ELSE t
            IN  IF r.user_style_profile THEN add_think_aloud_log(t1, 5, "user_confirm_style")
                ELSE IF ~r.selected_sample THEN add_think_aloud_log(t1, 5, "user_confirm")
                ELSE t1
        ELSE IF cs = 6 /\ r.user_materials THEN add_think_aloud_log(t, 6, "user_confirm")
        ELSE t

\* confirm_checkpoint, lines 551-625.
ConfirmWrites(t, snap, r) ==
    LET updates == ConfirmUpdates(snap.current_step, r)
        t1 == ConfirmSideWrites(t, snap, r)
        t2 == IF DOMAIN updates # {} THEN update_brief_data(t1, updates) ELSE t1
    IN  confirm_and_continue(t2, StepTag(snap.current_step))

\* POST /{task_id}/confirm (no suspension point).
Confirm(p, r) ==
    /\ FreeSlot(p)
    /\ calls < MaxCalls
    /\ calls' = calls + 1
    /\ req' = [req EXCEPT ![p] = [NewReq("confirm", 0, FALSE) EXCEPT
                                      !.supplied = Supplied(task, r)]]
    /\ last' = Event("confirm", p)
    /\ IF ~task.exists
       THEN /\ resp' = [resp EXCEPT ![p] = Response("404", FALSE, "rejected", "none")]
            /\ UNCHANGED <<task, parked>>
       ELSE IF ~ConfirmLegal(task)
       THEN /\ resp' = [resp EXCEPT ![p] = Response("400", FALSE, "rejected", "none")]
            /\ UNCHANGED <<task, parked>>
       ELSE /\ task' = ConfirmWrites(task, task, r)
            /\ resp' = [resp EXCEPT ![p] = Response("200", FALSE, "ok", "none")]
            /\ parked' = parked \ {task.current_step}
    /\ UNCHANGED pc
    /\ UNCHANGED libVars

\* --------------------------------------------------------- abort_workflow
\* abort_workflow, lines 766-768.
AbortWrites(t, snap) ==
    add_think_aloud_log(
      update_task_step(t, snap.current_step, "aborted", NoExtra),
      snap.current_step, "abort")

\* POST /{task_id}/abort (no suspension point).
Abort(p) ==
    /\ FreeSlot(p)
    /\ calls < MaxCalls
    /\ calls' = calls + 1
    /\ req' = [req EXCEPT ![p] = NewReq("abort", 0, FALSE)]
    /\ last' = Event("abort", p)
    /\ IF ~task.exists
       THEN /\ resp' = [resp EXCEPT ![p] = Response("404", FALSE, "rejected", "none")]
            /\ UNCHANGED task
       ELSE /\ task' = AbortWrites(task, task)
            /\ resp' = [resp EXCEPT ![p] = Response("200", FALSE, "ok", "none")]
    /\ UNCHANGED <<pc, parked>>
    /\ UNCHANGED libVars

\* ---------------------------------------------------------- specification
Recommendations == {"", "recommended_sample"}

Next ==
    \/ \E p \in Procs, channel_ok \in BOOLEAN : Create(p, channel_ok)
    \/ \E p \in Procs, step_id \in StepArgs, topic_given \in BOOLEAN :
           ExecuteBegin(p, step_id, topic_given)
    \/ \E p \in Procs, step_id \in StepArgs, outcome \in {"ok", "raise"} :
           ExecuteNoSuspend(p, step_id, outcome)
    \/ \E p \in Procs, outcome \in {"ok", "raise"}, provider_ok \in BOOLEAN,
          rec \in Recommendations :
           ExecuteFinish(p, outcome, provider_ok, rec)
    \/ \E p \in Procs, r \in ConfirmRequests : Confirm(p, r)
    \/ \E p \in Procs : Abort(p)

Spec == Init /\ [][Next]_vars

\* ---------------------------------------------------------- select_sample
\* select_sample, lines 875-890: the snapshot of the sample goes into
\* brief_data, and the log gets an entry.
select_sample(t, sample_id, snapshot) ==
    add_think_aloud_log(
      update_brief_data(t, [ selected_sample_id |-> sample_id,
                             selected_sample |-> snapshot ]),
      5, "sample_selected")

\* POST /{task_id}/select-sample (no suspension point; the task's step and
\* status are not looked at).  sample_found: get_style_sample_by_id found the
\* row; snapshot: the dict built from it (lines 877-882).
SelectSample(p, sample_id, sample_found, snapshot) ==
    /\ FreeSlot(p)
    /\ calls < MaxCalls
    /\ calls' = calls + 1
    /\ req' = [req EXCEPT ![p] = NewReq("select_sample", 0, FALSE)]
    /\ last' = Event("select_sample", p)
    /\ IF ~task.exists \/ ~sample_found
       THEN /\ resp' = [resp EXCEPT ![p] = Response("404", FALSE, "rejected", "none")]
            /\ UNCHANGED task
       ELSE /\ task' = select_sample(task, sample_id, snapshot)
            /\ resp' = [resp EXCEPT ![p] = Response("200", FALSE, "ok", "none")]
    /\ UNCHANGED <<pc, parked>>
    /\ UNCHANGED libVars

\* The workflow calls together with select-sample; the sample's snapshot is
\* abstracted to a token, as the texts are.
SelectNext ==
    \/ Next
    \/ \E p \in Procs, sample_found \in BOOLEAN :
           SelectSample(p, "sample_id", sample_found, "selected_sample")

SelectSpec == Init /\ [][SelectNext]_vars

\* ============================================================ material RAG
\* DatabaseService's PersonalMaterial queries and the /materials/search route.
\* A material's text is a sequence of words; `ILIKE %x%` is "x occurs in it".
MaxMaterials == 2

\* SQL NULL / Python None.
NULL == "NULL"

\* The channels table: id and slug of every channel row.
Channels == { [id |-> "A", slug |-> "a"], [id |-> "B", slug |-> "b"] }

ChannelIds == {c.id : c \in Channels}

\* The slugs a caller may send: those of the channels and one that names none.
RequestSlugs == {c.slug : c \in Channels} \cup {"gone"}

\* DatabaseService.get_channel_by_slug: the channel's id, or None.
get_channel_by_slug(slug) ==
    IF \E c \in Channels : c.slug = slug
    THEN (CHOOSE c \in Channels : c.slug = slug).id
    ELSE NULL

\* channels.slug of a material's channel (the LEFT JOIN of get_all_materials).
SlugOf(channel_id) ==
    IF \E c \in Channels : c.id = channel_id
    THEN (CHOOSE c \in Channels : c.id = channel_id).slug
    ELSE NULL

MaterialContents == { <<"tea">>, <<"tea", "house">> }

MaterialTypes == {"case", "quote"}

\* A personal_materials row; created_at is the row's index in the table,
\* embedding is the distance of its vector to the query (0: no vector).
MaterialRows ==
    [ channel_id : ChannelIds \cup {NULL},
      content : MaterialContents,
      material_type : MaterialTypes,
      embedding : {0, 1} ]

MaterialTables == [1..MaxMaterials -> MaterialRows]

KeywordLists == { << >>, <<"tea">>, <<"house">>, <<"tea", "house">> }

Limits == {1, MaxMaterials}

\* `content ILIKE %phrase%` for a phrase of words.
Contains(content, phrase) ==
    \E i \in 0..(Len(content) - Len(phrase)) :
        \A j \in 1..Len(phrase) : content[i + j] = phrase[j]

Min(a, b) == IF a < b THEN a ELSE b

\* LIMIT n on an unordered query: any n of the matching rows.
AnyLimit(S, n) == {R \in SUBSET S : Cardinality(R) = Min(n, Cardinality(S))}

\* ORDER BY key ASC LIMIT n: n rows with the smallest keys (ties: any).
FirstByKey(S, key, n) ==
    {R \in AnyLimit(S, n) : \A i \in R, j \in S \ R : key[i] <= key[j]}

\* The channel isolation filter: the channel's rows and the global rows.
ChannelFilter(channel_id) ==
    {i \in DOMAIN personal_materials :
        \/ personal_materials[i].channel_id = channel_id
        \/ personal_materials[i].channel_id = NULL}

\* DatabaseService.search_materials_by_keywords: the sets it may return.
search_materials_by_keywords(channel_id, keywords, limit) ==
    AnyLimit({i \in ChannelFilter(channel_id) :
                 \/ keywords = << >>
                 \/ \E k \in 1..Len(keywords) :
                        Contains(personal_materials[i].content, <<keywords[k]>>)},
             limit)

EmbeddingDistance ==
    [i \in DOMAIN personal_materials |-> personal_materials[i].embedding]

\* DatabaseService.search_materials_by_embedding; vector_ok = FALSE when the
\* vector query raises, which falls back to the keyword search.
search_materials_by_embedding(channel_id, vector_ok, top_k) ==
    IF vector_ok
    THEN FirstByKey({i \in ChannelFilter(channel_id) :
                        personal_materials[i].embedding # 0},
                    EmbeddingDistance, top_k)
    ELSE search_materials_by_keywords(channel_id, << >>, top_k)

NewestFirst == [i \in DOMAIN personal_materials |-> 0 - i]

\* DatabaseService.get_materials_by_channel (material_type NULL: no filter).
get_materials_by_channel(channel_id, material_type, limit) ==
    FirstByKey({i \in ChannelFilter(channel_id) :
                   \/ material_type = NULL
                   \/ personal_materials[i].material_type = material_type},
               NewestFirst, limit)

\* DatabaseService.get_all_materials(channel_slug, search=..., limit=...);
\* an empty slug or search adds no WHERE clause.
get_all_materials(channel_slug, search, limit) ==
    FirstByKey({i \in DOMAIN personal_materials :
                   /\ \/ channel_slug = NULL
                      \/ SlugOf(personal_materials[i].channel_id) = channel_slug
                      \/ personal_materials[i].channel_id = NULL
                   /\ \/ search = << >>
                      \/ Contains(personal_materials[i].content, search)},
               NewestFirst, limit)

\* POST /materials/search: " ".join(keywords) is the word sequence itself.
search_materials(keywords, channel_slug, limit) ==
    LET channel_id == IF channel_slug # NULL
                      THEN get_channel_by_slug(channel_slug) ELSE NULL
    IN  IF channel_id # NULL
        THEN search_materials_by_keywords(channel_id, keywords, limit)
        ELSE get_all_materials(NULL, keywords, limit)

Retrieved(op, channel_id, channel_slug, result) ==
    [ op |-> op, channel_id |-> channel_id, channel_slug |-> channel_slug,
      result |-> result ]

SearchByKeywords(channel_id, keywords, limit, result) ==
    /\ result \in search_materials_by_keywords(channel_id, keywords, limit)
    /\ retrieval' = Retrieved("search_materials_by_keywords", channel_id, NULL, result)
    /\ UNCHANGED <<wfVars, personal_materials, style_call, curation, style_samples, retry>>

SearchByEmbedding(channel_id, vector_ok, top_k, result) ==
    /\ result \in search_materials_by_embedding(channel_id, vector_ok, top_k)
    /\ retrieval' = Retrieved("search_materials_by_embedding", channel_id, NULL, result)
    /\ UNCHANGED <<wfVars, personal_materials, style_call, curation, style_samples, retry>>

GetByChannel(channel_id, material_type, limit, result) ==
    /\ result \in get_materials_by_channel(channel_id, material_type, limit)
    /\ retrieval' = Retrieved("get_materials_by_channel", channel_id, NULL, result)
    /\ UNCHANGED <<wfVars, personal_materials, style_call, curation, style_samples, retry>>

SearchRoute(keywords, channel_slug, limit, result) ==
    /\ result \in search_materials(keywords, channel_slug, limit)
    /\ retrieval' = Retrieved("search_materials", NULL, channel_slug, result)
    /\ UNCHANGED <<wfVars, personal_materials, style_call, curation, style_samples, retry>>

MaterialInit ==
    /\ InitWorkflow
    /\ personal_materials \in MaterialTables
    /\ retrieval = NoCall
    /\ style_call = NoCall
    /\ curation = NoCall
    /\ style_samples = NoSamples
    /\ retry = NoCall

MaterialNext ==
    \/ \E c \in ChannelIds, k \in KeywordLists, n \in Limits,
          r \in SUBSET (1..MaxMaterials) : SearchByKeywords(c, k, n, r)
    \/ \E c \in ChannelIds, ok \in BOOLEAN, n \in Limits,
          r \in SUBSET (1..MaxMaterials) : SearchByEmbedding(c, ok, n, r)
    \/ \E c \in ChannelIds, t \in MaterialTypes \cup {NULL}, n \in Limits,
          r \in SUBSET (1..MaxMaterials) : GetByChannel(c, t, n, r)
    \/ \E k \in KeywordLists, s \in RequestSlugs \cup {NULL}, n \in Limits,
          r \in SUBSET (1..MaxMaterials) : SearchRoute(k, s, n, r)

MaterialSpec == MaterialInit /\ [][MaterialNext]_vars

\* ========================================================= style resolution
\* The style a step works with (routes/workflow.py step 7, WorkflowEngine
\* execute_step_5 / execute_step_7).  A profile is a dict from field names to
\* descriptors; None and {} are both the empty dict (the code only tests
\* truthiness).  A descriptor is abstracted to the name of where it came from.
StyleFields == {"opening_style", "tone", "ending_style"}

\* The profiles whose fields all carry the descriptor v.
ProfilesOf(v) == {[f \in F |-> v] : F \in SUBSET StyleFields}

GetDict(d, k) == IF k \in DOMAIN d THEN d[k] ELSE EmptyDict

GetStr(d, k) == IF k \in DOMAIN d THEN d[k] ELSE ""

\* Python truthiness of a dict.
Truthy(d) == DOMAIN d # {}

\* brief_data["user_style_profile"], as the confirm request may store it.
UserFlags ==
    { EmptyDict, [is_customized |-> "true"], [custom_requirement |-> "custom"],
      [is_customized |-> "true", custom_requirement |-> "custom"] }

UserStyleProfiles == {DictUpdate(p, fl) : p \in ProfilesOf("override"), fl \in UserFlags}

\* A style sample as stored in brief_data["selected_sample"]: absent, without
\* a style_profile, or with one.
SelectedSamples ==
    {EmptyDict, [title |-> "sample"]}
    \cup {[title |-> "sample", style_profile |-> p] : p \in ProfilesOf("sample")}

\* The style keys of a task's brief_data.
StyleBriefs ==
    [ user_style_profile : UserStyleProfiles,
      style_profile : ProfilesOf("channel"),
      selected_sample : SelectedSamples ]

\* What step 5 finds for a channel: the channel row (or none), the best
\* matching analysed sample, the channel's aggregate profile, and the
\* features of the first legacy sample that has any.
NoChannelStyle ==
    [ exists |-> FALSE, recommended |-> EmptyDict, style_profile |-> EmptyDict,
      features |-> EmptyDict ]

ChannelStyles ==
    {NoChannelStyle}
    \cup [ exists : {TRUE},
           recommended : SelectedSamples,
           style_profile : ProfilesOf("channel"),
           features : {EmptyDict, [f \in StyleFields |-> "legacy"]} ]

\* execute_step_5: the hard-coded fallback profile.
DefaultStyleProfile ==
    [ opening_style |-> "story_intro", tone |-> "warm_friend",
      ending_style |-> "reflection" ]

\* execute_step_5, the style part: recommended sample, then the channel's
\* profile, then legacy sample features, then the default.
execute_step_5_style(ch) ==
    LET selected_sample == IF ch.exists THEN ch.recommended ELSE EmptyDict
        from_sample == GetDict(selected_sample, "style_profile")
        fallback == IF Truthy(from_sample) THEN from_sample
                    ELSE IF ch.exists /\ Truthy(ch.style_profile) THEN ch.style_profile
                    ELSE IF ch.exists THEN ch.features
                    ELSE EmptyDict
    IN  [ style_profile |-> IF Truthy(fallback) THEN fallback ELSE DefaultStyleProfile,
          selected_sample |-> selected_sample ]

\* execute_step, step 7: brief_data.get("user_style_profile") or
\* brief_data.get("style_profile", {}).
Step7StyleProfile(brief) ==
    IF Truthy(brief.user_style_profile) THEN brief.user_style_profile
    ELSE brief.style_profile

\* execute_step_7: the style source actually used, and its label.
EffectiveStyle(style_profile, selected_sample) ==
    IF Truthy(style_profile) /\ GetStr(style_profile, "is_customized") # ""
    THEN [ profile |-> style_profile, source |-> "user" ]
    ELSE IF Truthy(selected_sample) /\ Truthy(GetDict(selected_sample, "style_profile"))
    THEN [ profile |-> selected_sample.style_profile, source |-> "sample" ]
    ELSE IF Truthy(style_profile)
    THEN [ profile |-> style_profile, source |-> "channel" ]
    ELSE [ profile |-> EmptyDict, source |-> "default" ]

\* One block of style_instructions for a field the profile describes.
FieldLines(dims, f) ==
    IF GetStr(dims, f) # "" THEN << <<f, dims[f]>> >> ELSE << >>

\* execute_step_7: style_instructions, as the sequence of its blocks ("" is
\* the empty sequence).
StyleInstructions(style_profile, effective) ==
    IF ~Truthy(effective) THEN << >>
    ELSE << <<"header", "">> >>
         \o FieldLines(effective, "opening_style")
         \o FieldLines(effective, "tone")
         \o FieldLines(effective, "ending_style")
         \o (IF GetStr(style_profile, "custom_requirement") # ""
             THEN << <<"custom_requirement", style_profile["custom_requirement"]>> >>
             ELSE << >>)

\* Step 7 of a task with these brief_data style keys.
ResolveStep7 ==
    /\ style_call.op = "none"
    /\ "brief" \in DOMAIN style_call
    /\ LET brief == style_call.brief
           style_profile == Step7StyleProfile(brief)
           eff == EffectiveStyle(style_profile, brief.selected_sample)
       IN  style_call' =
               [ op |-> "execute_step_7",
                 brief |-> brief,
                 effective |-> eff.profile,
                 source |-> eff.source,
                 style_instructions |-> StyleInstructions(style_profile, eff.profile) ]
    /\ UNCHANGED <<wfVars, personal_materials, retrieval, curation, style_samples, retry>>

\* Step 5 on a channel with these samples and profile.
ResolveStep5 ==
    /\ style_call.op = "none"
    /\ "channel" \in DOMAIN style_call
    /\ LET r == execute_step_5_style(style_call.channel)
       IN  style_call' =
               [ op |-> "execute_step_5",
                 channel |-> style_call.channel,
                 style_profile |-> r.style_profile,
                 selected_sample |-> r.selected_sample ]
    /\ UNCHANGED <<wfVars, personal_materials, retrieval, curation, style_samples, retry>>

StyleInit ==
    /\ InitWorkflow
    /\ personal_materials = << >>
    /\ retrieval = NoCall
    /\ curation = NoCall
    /\ style_samples = NoSamples
    /\ retry = NoCall
    /\ style_call \in {[op |-> "none", brief |-> b] : b \in StyleBriefs}
                      \cup {[op |-> "none", channel |-> c] : c \in ChannelStyles}

\* execute_step, step 8, line 470: brief_data.get("user_style_profile") or
\* brief_data.get("style_profile", {}); selected_sample is not read.
Step8StyleProfile(brief) ==
    IF Truthy(brief.user_style_profile) THEN brief.user_style_profile
    ELSE brief.style_profile

\* Step 8 of the task after its step 7, the style keys of brief_data as they
\* were: execute_step_8 builds its checklist from the style_profile it is given.
ResolveStep8 ==
    /\ style_call.op = "execute_step_7"
    /\ style_call' =
           [ op |-> "execute_step_8",
             brief |-> style_call.brief,
             effective |-> style_call.effective,
             source |-> style_call.source,
             style_instructions |-> style_call.style_instructions,
             checked |-> Step8StyleProfile(style_call.brief) ]
    /\ UNCHANGED <<wfVars, personal_materials, retrieval, curation, style_samples, retry>>

StyleNext == ResolveStep7 \/ ResolveStep5 \/ ResolveStep8

StyleSpec == StyleInit /\ [][StyleNext]_vars

\* ============================================================ style samples
\* The style_samples table and the task's selected sample (select_sample in
\* routes/workflow.py, the sample functions of DatabaseService, step 7).
SampleIds == {"s1"}

\* The ids a caller may send: those of the samples and one that names none.
RequestSampleIds == SampleIds \cup {"gone"}

SampleTitles == {"sample", "renamed"}

\* style_samples.style_profile: not analysed yet, or the result of an analysis.
SampleProfiles ==
    {EmptyDict, [f \in StyleFields |-> "sample"], [f \in StyleFields |-> "reanalysed"]}

StyleSampleRows == [title : SampleTitles, style_profile : SampleProfiles]

\* DatabaseService.get_style_sample_by_id: the row as a dict, or None.
get_style_sample_by_id(sample_id) ==
    IF sample_id \in DOMAIN style_samples
    THEN [ id |-> sample_id, title |-> style_samples[sample_id].title,
           style_profile |-> style_samples[sample_id].style_profile ]
    ELSE EmptyDict

\* select_sample, lines 877-882: the dict stored as brief_data.selected_sample.
SampleSnapshot(sample) ==
    IF Truthy(sample)
    THEN [ id |-> sample.id, title |-> sample.title,
           style_profile |-> sample.style_profile ]
    ELSE EmptyDict

\* DatabaseService.update_style_sample(sample_id, title=...)
update_style_sample(samples, sample_id, title) ==
    IF sample_id \in DOMAIN samples
    THEN [samples EXCEPT ![sample_id].title = title] ELSE samples

\* DatabaseService.update_style_sample_analysis(sample_id, style_profile)
update_style_sample_analysis(samples, sample_id, style_profile) ==
    IF sample_id \in DOMAIN samples
    THEN [samples EXCEPT ![sample_id].style_profile = style_profile] ELSE samples

\* DatabaseService.delete_style_sample(sample_id)
delete_style_sample(samples, sample_id) ==
    [k \in (DOMAIN samples) \ {sample_id} |-> samples[k]]

\* A step-7 reader that follows selected_sample_id into the table.
Step7SelectedSampleLive(brief_data) ==
    IF "selected_sample_id" \in DOMAIN brief_data
    THEN SampleSnapshot(get_style_sample_by_id(brief_data["selected_sample_id"]))
    ELSE EmptyDict

\* execute_step, step 7, line 450: brief_data.get("selected_sample").
Step7SelectedSample(brief_data) == GetDict(brief_data, "selected_sample")

\* The style keys step 7 reads from brief_data (lines 447-450).
StyleBriefOf(brief_data) ==
    [ user_style_profile |-> GetDict(brief_data, "user_style_profile"),
      style_profile |-> GetDict(brief_data, "style_profile"),
      selected_sample |-> Step7SelectedSample(brief_data) ]

\* The style source step 7 of task t works with.
Step7Uses(t) ==
    LET brief == StyleBriefOf(t.brief_data)
    IN  EffectiveStyle(Step7StyleProfile(brief), brief.selected_sample)

UpdateStyleSample(sample_id, title) ==
    /\ sample_id \in DOMAIN style_samples
    /\ style_samples' = update_style_sample(style_samples, sample_id, title)
    /\ UNCHANGED <<wfVars, personal_materials, retrieval, style_call, curation, retry>>

UpdateStyleSampleAnalysis(sample_id, style_profile) ==
    /\ sample_id \in DOMAIN style_samples
    /\ style_samples' = update_style_sample_analysis(style_samples, sample_id, style_profile)
    /\ UNCHANGED <<wfVars, personal_materials, retrieval, style_call, curation, retry>>

DeleteStyleSample(sample_id) ==
    /\ sample_id \in DOMAIN style_samples
    /\ style_samples' = delete_style_sample(style_samples, sample_id)
    /\ UNCHANGED <<wfVars, personal_materials, retrieval, style_call, curation, retry>>

\* The style part of execute-step/7 on the task.
ExecuteStep7Style ==
    /\ task.exists
    /\ LET brief == StyleBriefOf(task.brief_data)
           style_profile == Step7StyleProfile(brief)
           eff == Step7Uses(task)
       IN  style_call' =
               [ op |-> "execute_step_7",
                 brief |-> brief,
                 effective |-> eff.profile,
                 source |-> eff.source,
                 style_instructions |-> StyleInstructions(style_profile, eff.profile) ]
    /\ UNCHANGED <<wfVars, personal_materials, retrieval, curation, style_samples, retry>>

SampleInit ==
    /\ InitWorkflow
    /\ personal_materials = << >>
    /\ retrieval = NoCall
    /\ style_call = NoCall
    /\ curation = NoCall
    /\ retry = NoCall
    /\ style_samples \in [SampleIds -> StyleSampleRows]

SampleNext ==
    \/ \E p \in Procs, channel_ok \in BOOLEAN : Create(p, channel_ok)
    \/ \E p \in Procs, sample_id \in RequestSampleIds :
           SelectSample(p, sample_id, Truthy(get_style_sample_by_id(sample_id)),
                        SampleSnapshot(get_style_sample_by_id(sample_id)))
    \/ \E sample_id \in SampleIds, title \in SampleTitles :
           UpdateStyleSample(sample_id, title)
    \/ \E sample_id \in SampleIds, style_profile \in SampleProfiles :
           UpdateStyleSampleAnalysis(sample_id, style_profile)
    \/ \E sample_id \in SampleIds : DeleteStyleSample(sample_id)
    \/ ExecuteStep7Style

SampleSpec == SampleInit /\ [][SampleNext]_vars

\* ======================================================= material processor
\* services/material_processor.py.  A text is a sequence of characters; a
\* material is a dict with id, source ("" when it has none), content and the
\* retrieval score `similarity`.
MaxItems == 3

SimilarityThresholdPct == 85

NgramSize == 2

ContactDigits == 5

Text1 == <<"a", "b", "c", "d", "e", "f", "g", "h">>

Text2 == <<"a", "b", "c", "d", " ", "e", "f", "g", "h", "i">>

Text3 == <<"a", "b", "c", "d", "e", "f", "g", "h", "i", "j">>

SpamText == <<"t", "e", "a", " ", "q", "q", ":", " ", "1", "2", "3", "4", "5">>

ContentPool == {Text1, Text2, Text3, SpamText}

MaterialIds == <<"m1", "m2", "m3", "m4", "m5">>

Sources == {"", "s1"}

Scores == {0, 1}

\* What a material carries besides its id.
MaterialItems == [source : Sources, content : ContentPool, similarity : Scores]

\* A list handed to the processor: item i has the i-th id.
WithIds(items) ==
    [i \in DOMAIN items |->
        [ id |-> MaterialIds[i], source |-> items[i].source,
          content |-> items[i].content, similarity |-> items[i].similarity ]]

Whitespace == {" "}

Digits == {"0", "1", "2", "3", "4", "5", "6", "7", "8", "9"}

\* First position from i on whose character is not in S (Len + 1 if none).
RECURSIVE SkipWhile(_, _, _)
SkipWhile(text, i, S) ==
    IF i <= Len(text) /\ text[i] \in S THEN SkipWhile(text, i + 1, S) ELSE i

\* _SPAM_REGEX.search(content), for the one pattern of SPAM_PATTERNS that
\* plain ASCII text can match: QQ[:]?\s*\d{5,}, case-insensitive.
IsSpam(content) ==
    \E i \in 1..Len(content) :
        /\ i + 1 <= Len(content)
        /\ content[i] \in {"q", "Q"}
        /\ content[i + 1] \in {"q", "Q"}
        /\ LET j == IF i + 2 <= Len(content) /\ content[i + 2] = ":"
                    THEN i + 3 ELSE i + 2
               k == SkipWhile(content, j, Whitespace)
           IN  \A d \in k..(k + ContactDigits - 1) :
                   d <= Len(content) /\ content[d] \in Digits

filter_spam_materials(materials) ==
    SelectSeq(materials, LAMBDA mat : ~IsSpam(mat.content))

\* dedupe_by_source: the key a material is grouped under.
SourceKey(mat) == IF mat.source # "" THEN mat.source ELSE mat.id

\* A slip in dedupe_by_source: `>=` for `>`, the last-seen wins a tie.
RECURSIVE SourceLoopLastSeen(_, _, _)
SourceLoopLastSeen(source_map, materials, i) ==
    IF i > Len(materials) THEN source_map
    ELSE LET mat == materials[i]
             at == {k \in 1..Len(source_map) : source_map[k].key = SourceKey(mat)}
         IN  IF at = {}
             THEN SourceLoopLastSeen(
                      Append(source_map, [key |-> SourceKey(mat), value |-> mat]),
                      materials, i + 1)
             ELSE LET k == CHOOSE x \in at : TRUE
                  IN  IF mat.similarity >= source_map[k].value.similarity
                      THEN SourceLoopLastSeen([source_map EXCEPT ![k].value = mat],
                                              materials, i + 1)
                      ELSE SourceLoopLastSeen(source_map, materials, i + 1)

\* dedupe_by_source: the loop over materials[i..]; source_map is the dict as
\* the sequence of its (key, value) entries in insertion order.
RECURSIVE SourceLoop(_, _, _)
SourceLoop(source_map, materials, i) ==
    IF i > Len(materials) THEN source_map
    ELSE LET mat == materials[i]
             at == {k \in 1..Len(source_map) : source_map[k].key = SourceKey(mat)}
         IN  IF at = {}
             THEN SourceLoop(Append(source_map, [key |-> SourceKey(mat), value |-> mat]),
                             materials, i + 1)
             ELSE LET k == CHOOSE x \in at : TRUE
                  IN  IF mat.similarity > source_map[k].value.similarity
                      THEN SourceLoop([source_map EXCEPT ![k].value = mat],
                                      materials, i + 1)
                      ELSE SourceLoop(source_map, materials, i + 1)

dedupe_by_source(materials) ==
    LET source_map == SourceLoop(<< >>, materials, 1)
    IN  [k \in 1..Len(source_map) |-> source_map[k].value]

\* re.sub(r'\s+', '', text)
RemoveWhitespace(text) == SelectSeq(text, LAMBDA c : c \notin Whitespace)

\* _get_char_ngrams(text, n)
GetCharNgrams(text, n) ==
    LET t == RemoveWhitespace(text)
    IN  [i \in 1..(Len(t) - n + 1) |-> SubSeq(t, i, i + n - 1)]

Range(s) == {s[i] : i \in DOMAIN s}

\* _calculate_jaccard_similarity: the ratio as numerator and denominator.
CalculateJaccardSimilarity(text_a, text_b) ==
    LET set_a == Range(GetCharNgrams(text_a, NgramSize))
        set_b == Range(GetCharNgrams(text_b, NgramSize))
    IN  IF text_a = << >> \/ text_b = << >> \/ set_a = {} \/ set_b = {}
        THEN [num |-> 0, den |-> 1]
        ELSE [num |-> Cardinality(set_a \cap set_b), den |-> Cardinality(set_a \cup set_b)]

\* sim > threshold, the threshold in percent.
IsDuplicate(text_a, text_b, threshold) ==
    LET sim == CalculateJaccardSimilarity(text_a, text_b)
    IN  sim.num * 100 > threshold * sim.den

Remove(s, k) == [i \in 1..(Len(s) - 1) |-> IF i < k THEN s[i] ELSE s[i + 1]]

\* dedupe_by_content_similarity: the loop over materials[i..].  Only the
\* first element of result the material duplicates is looked at (break).
RECURSIVE ContentLoop(_, _, _, _)
ContentLoop(result, materials, i, threshold) ==
    IF i > Len(materials) THEN result
    ELSE LET mat == materials[i]
             dup == {k \in 1..Len(result) :
                        IsDuplicate(mat.content, result[k].content, threshold)}
         IN  IF dup = {}
             THEN ContentLoop(Append(result, mat), materials, i + 1, threshold)
             ELSE LET k == CHOOSE x \in dup : \A y \in dup : x <= y
                  IN  IF mat.similarity > result[k].similarity
                      THEN ContentLoop(Append(Remove(result, k), mat),
                                       materials, i + 1, threshold)
                      ELSE ContentLoop(result, materials, i + 1, threshold)

dedupe_by_content_similarity(materials, threshold) ==
    IF Len(materials) <= 1 THEN materials
    ELSE ContentLoop(<< >>, materials, 1, threshold)

\* process_materials with its three stages switched on, as step 5 calls it.
process_materials(materials) ==
    IF materials = << >> THEN << >>
    ELSE dedupe_by_content_similarity(
             dedupe_by_source(filter_spam_materials(materials)),
             SimilarityThresholdPct)

Curated(op, result) ==
    [ op |-> op, materials |-> curation.materials, result |-> result ]

ProcessMaterials ==
    /\ curation.op = "none"
    /\ "materials" \in DOMAIN curation
    /\ curation' = Curated("process_materials", process_materials(curation.materials))
    /\ UNCHANGED <<wfVars, personal_materials, retrieval, style_call, style_samples, retry>>

DedupeBySource ==
    /\ curation.op = "none"
    /\ "materials" \in DOMAIN curation
    /\ curation' = Curated("dedupe_by_source", dedupe_by_source(curation.materials))
    /\ UNCHANGED <<wfVars, personal_materials, retrieval, style_call, style_samples, retry>>

DedupeByContent ==
    /\ curation.op = "none"
    /\ "materials" \in DOMAIN curation
    /\ curation' = Curated("dedupe_by_content_similarity",
                           dedupe_by_content_similarity(curation.materials,
                                                        SimilarityThresholdPct))
    /\ UNCHANGED <<wfVars, personal_materials, retrieval, style_call, style_samples, retry>>

CuratorInit ==
    /\ InitWorkflow
    /\ personal_materials = << >>
    /\ retrieval = NoCall
    /\ style_call = NoCall
    /\ style_samples = NoSamples
    /\ retry = NoCall
    /\ \E n \in 0..MaxItems : \E items \in [1..n -> MaterialItems] :
           curation = [op |-> "none", materials |-> WithIds(items)]

CuratorNext == ProcessMaterials \/ DedupeBySource \/ DedupeByContent

CuratorSpec == CuratorInit /\ [][CuratorNext]_vars

\* ================================================================= db_retry
\* The retry wrapper around Task Store calls (routes/workflow.py, db_retry),
\* as create_workflow uses it for create_task.
MAX_RETRIES == 3

\* What one invocation of the wrapped function does: it returns, or raises one
\* of two distinguishable exceptions.
FuncOutcomes == {"ok", "err_a", "err_b"}

\* The outcomes of the successive invocations of the wrapped function, one more
\* than the wrapper is meant to make.
RetryPlans == [1..(MAX_RETRIES + 1) -> FuncOutcomes]

\* The value returned or the exception raised by the n-th invocation.
FuncResult(plan, n) == [kind |-> plan[n], n |-> n]

NoResult == [kind |-> "none", n |-> 0]

\* A loop test that admits one more round.
InRangeInclusive(attempt) == attempt <= MAX_RETRIES

\* for attempt in range(MAX_RETRIES)
InRange(attempt) == attempt < MAX_RETRIES

\* try: return func(*args, **kwargs) / except Exception as e: last_error = e,
\* then sleep or, on the last round, only print.
RetryInvoke ==
    /\ retry.op = "db_retry"
    /\ retry.pc = "loop"
    /\ InRange(retry.attempt)
    /\ LET n == retry.invocations + 1
           r == FuncResult(retry.plan, n)
       IN  IF r.kind = "ok"
           THEN retry' = [retry EXCEPT !.invocations = n, !.pc = "returned",
                                       !.result = r]
           ELSE IF retry.attempt < MAX_RETRIES - 1
                THEN retry' = [retry EXCEPT !.invocations = n, !.last_error = r,
                                            !.pc = "sleep"]
                ELSE retry' = [retry EXCEPT !.invocations = n, !.last_error = r,
                                            !.attempt = @ + 1]
    /\ UNCHANGED <<wfVars, personal_materials, retrieval, style_call, curation,
                   style_samples>>

\* time.sleep(RETRY_DELAY) ends and the loop goes to its next round.
RetrySleep ==
    /\ retry.op = "db_retry"
    /\ retry.pc = "sleep"
    /\ retry' = [retry EXCEPT !.attempt = @ + 1, !.pc = "loop"]
    /\ UNCHANGED <<wfVars, personal_materials, retrieval, style_call, curation,
                   style_samples>>

\* The loop is exhausted: raise last_error.
RetryRaise ==
    /\ retry.op = "db_retry"
    /\ retry.pc = "loop"
    /\ ~InRange(retry.attempt)
    /\ retry' = [retry EXCEPT !.pc = "raised", !.result = retry.last_error]
    /\ UNCHANGED <<wfVars, personal_materials, retrieval, style_call, curation,
                   style_samples>>

RetryInit ==
    /\ InitWorkflow
    /\ personal_materials = << >>
    /\ retrieval = NoCall
    /\ style_call = NoCall
    /\ curation = NoCall
    /\ style_samples = NoSamples
    /\ \E plan \in RetryPlans :
           retry = [ op |-> "db_retry", plan |-> plan, attempt |-> 0,
                     invocations |-> 0, pc |-> "loop",
                     last_error |-> NoResult, result |-> NoResult ]

RetryNext == RetryInvoke \/ RetrySleep \/ RetryRaise

\* The wrapper is one synchronous call: each invocation of the wrapped function
\* returns or raises, and each sleep ends.
RetrySpec == RetryInit /\ [][RetryNext]_vars /\ WF_vars(RetryNext)

\* ------------------------------------------------------------------ claims
\* The slot that made the last move.
Mover(p) == last.proc = p

\* Slot p's execute call has just been received (entry code has run).
ExecuteCalled(p) ==
    Mover(p) /\ req[p].op = "execute" /\ last.ev \in {"execute_begin", "execute_atomic"}

\* Slot p's execute call has just run to its response after the handler.
ExecuteFinished(p) ==
    Mover(p) /\ req[p].op = "execute" /\ last.ev \in {"execute_finish", "execute_atomic"}

ConfirmCalled(p) == Mover(p) /\ req[p].op = "confirm" /\ last.ev = "confirm"

LastLog(t) == t.think_aloud_logs[Len(t.think_aloud_logs)]

\* C1: the stored current_step never decreases from one state to the next,
\* except via abort.
C1_StepNeverDecreases ==
    [][task'.current_step >= task.current_step \/ last'.ev = "abort"]_vars

\* C2: an execute whose step differs from the task's current_step, or whose
\* task is not processing or error, is rejected and leaves the task unchanged.
C2_IllegalExecuteRejected ==
    \A p \in Procs :
        ( /\ ExecuteCalled(p)
          /\ req[p].task.exists
          /\ \/ req[p].step_id # req[p].task.current_step
             \/ req[p].task.status \notin {"processing", "error"} )
        => (resp[p].outcome = "rejected" /\ task = req[p].task)

\* C3: a successful execute of a non-checkpoint step N records step N's output
\* and leaves the task at current_step = min(N+1, 9), status processing, or
\* completed when N = 9.
C3_NonCheckpointAdvances ==
    \A p \in Procs :
        ( /\ ExecuteFinished(p)
          /\ resp[p].outcome = "ok"
          /\ req[p].step_id \in {1, 4, 7, 8, 9} )
        => LET N == req[p].step_id
           IN  /\ StepOutputKey(N) \in DOMAIN task.brief_data
               /\ task.brief_data[StepOutputKey(N)] = resp[p].gen
               /\ task.current_step = (IF N + 1 <= 9 THEN N + 1 ELSE 9)
               /\ task.status = (IF N = 9 THEN "completed" ELSE "processing")

C3_Witness ==
    \E p \in Procs :
        /\ ExecuteFinished(p)
        /\ resp[p].outcome = "ok"
        /\ req[p].step_id = 9
        /\ task.status = "completed"
        /\ "step_9_output" \in DOMAIN task.brief_data

\* C4: a successful confirm on a task waiting at checkpoint step N sets status
\* processing and advances current_step to N+1.
C4_ConfirmAdvances ==
    \A p \in Procs :
        (ConfirmCalled(p) /\ resp[p].outcome = "ok")
        => /\ task.status = "processing"
           /\ task.current_step = req[p].task.current_step + 1

C6_ConfirmRejectedUnchanged ==
    \A p \in Procs :
        ( /\ ConfirmCalled(p)
          /\ req[p].task.exists
          /\ req[p].task.status # "waiting_confirm" )
        => (resp[p].code = "400" /\ task = req[p].task)

C6_Witness ==
    \E p \in Procs :
        /\ ConfirmCalled(p)
        /\ req[p].task.status = "processing"
        /\ resp[p].code = "400"

\* C7: once a task's status is aborted or completed, every later call on it is
\* rejected and its status and current_step never change again.
C7_TerminalAbsorbing ==
    [][ task.status \in {"aborted", "completed"}
        => /\ task'.status = task.status
           /\ task'.current_step = task.current_step
           /\ (calls' # calls => resp'[last'.proc].outcome = "rejected") ]_vars

\* C8: of two execute(task, N) calls that run concurrently, at most one ends
\* in success; the other ends in an error or a no-op.
C8_ConcurrentExecuteExclusive ==
    \A p, q \in Procs :
        ( /\ p # q
          /\ req[p].op = "execute" /\ req[q].op = "execute"
          /\ req[p].step_id = req[q].step_id
          /\ req[q].id \in req[p].overlap
          /\ pc[p] = "idle" /\ pc[q] = "idle" )
        => ~(resp[p].outcome = "ok" /\ resp[q].outcome = "ok")

\* C9: when text generation fails during execute(task, 7), the task's status
\* becomes error, its current_step stays 7 and the log gains a failure entry.
C9_GenerationFailureIsError ==
    \A p \in Procs :
        ( /\ ExecuteFinished(p)
          /\ req[p].step_id = 7
          /\ resp[p].gen = "error_text" )
        => /\ task.status = "error"
           /\ task.current_step = 7
           /\ LastLog(task) = [step |-> 7, content |-> "error"]

\* C10: when the step handler raises during execute(task, N), the task ends
\* with status error and current_step N, the log ends with the failure entry,
\* the caller gets an error; and an execute of step N on a task in status error
\* at step N (with the topic step 4 needs) is accepted.
C10_HandlerFailureRecoverable ==
    \A p \in Procs :
        /\ (ExecuteFinished(p) /\ resp[p].outcome = "raise")
           => /\ task.status = "error"
              /\ task.current_step = req[p].step_id
              /\ Len(task.think_aloud_logs) > 0
              /\ LastLog(task) = [step |-> req[p].step_id, content |-> "error"]
              /\ resp[p].code = "500"
        /\ ( /\ ExecuteCalled(p)
             /\ req[p].task.status = "error"
             /\ req[p].task.current_step = req[p].step_id
             /\ req[p].step_id \in 1..9
             /\ (req[p].step_id = 4
                 => (req[p].topic_given \/ "selected_topic" \in DOMAIN req[p].task.brief_data)) )
           => /\ resp[p].outcome # "rejected"
              /\ (last.ev = "execute_begin" => pc[p] = "await" /\ task.status = "processing")

C10_Witness ==
    \E p \in Procs :
        /\ ExecuteCalled(p)
        /\ req[p].task.status = "error"
        /\ req[p].task.current_step = req[p].step_id
        /\ LastLog(req[p].task) = [step |-> req[p].step_id, content |-> "error"]
        /\ pc[p] = "await"
        /\ task.status = "processing"

\* The rows a retrieval returned.
RetrievedRows == {personal_materials[i] : i \in retrieval.result}

\* C11: a retrieval called for channel B (by id, or by slug on the search
\* route) returns only materials whose channel is B or null.
C11_ChannelIsolation ==
    /\ retrieval.op \in {"search_materials_by_keywords", "search_materials_by_embedding",
                         "get_materials_by_channel"}
       => \A m \in RetrievedRows : m.channel_id \in {retrieval.channel_id, NULL}
    /\ (retrieval.op = "search_materials" /\ retrieval.channel_slug # NULL)
       => \A m \in RetrievedRows :
              \/ m.channel_id = NULL
              \/ SlugOf(m.channel_id) = retrieval.channel_slug

\* The field as the highest level supplying it gives it: the customized user
\* override, else the selected sample's profile.
FieldLevelStyle(brief, f) ==
    IF f \in DOMAIN brief.user_style_profile THEN brief.user_style_profile[f]
    ELSE GetStr(GetDict(brief.selected_sample, "style_profile"), f)

\* C12: in step 7, with a customized user override and a selected sample that
\* has a profile, every field is resolved independently: from the override
\* when the override has it, otherwise from the sample.
C12_FieldLevelPrecedence ==
    ( /\ style_call.op = "execute_step_7"
      /\ GetStr(style_call.brief.user_style_profile, "is_customized") # ""
      /\ Truthy(GetDict(style_call.brief.selected_sample, "style_profile")) )
    => \A f \in StyleFields :
           GetStr(style_call.effective, f) = FieldLevelStyle(style_call.brief, f)

\* The ids of the materials a processor call returned.
Survivors == {curation.result[k].id : k \in DOMAIN curation.result}

\* C13: of input items whose contents are duplicates of one another the
\* curator outputs at most one, the highest-scored, the first-seen on a tie.
C13_DuplicatesConverge ==
    curation.op \in {"process_materials", "dedupe_by_content_similarity"}
    => \A i, j \in DOMAIN curation.materials :
           LET a == curation.materials[i]
               b == curation.materials[j]
           IN  ( /\ i # j
                 /\ IsDuplicate(a.content, b.content, SimilarityThresholdPct)
                 /\ a.id \in Survivors )
               => /\ b.id \notin Survivors
                  /\ a.similarity >= b.similarity
                  /\ a.similarity = b.similarity => i < j

\* C14: a task whose status is completed has current_step = 9, also in
\* states reached by interleaved calls on the task.
C14_CompletedAtLastStep ==
    task.status = "completed" => task.current_step = NumSteps

\* A task completed while another call on it is still suspended in a handler.
C14_Witness ==
    /\ task.status = "completed"
    /\ \E p \in Procs : ExecuteFinished(p) /\ req[p].step_id = NumSteps
    /\ \E q \in Procs : pc[q] = "await"

\* The task sits at a checkpoint step whose handler has run, whose output is
\* recorded, and which has not been confirmed since.
ParkedUnconfirmed(t) ==
    /\ t.current_step \in CheckpointSteps
    /\ t.current_step \in parked
    /\ Has(t.brief_data, StepOutputKey(t.current_step))

\* C15 (as stated): status is waiting_confirm if and only if current_step is
\* a checkpoint step whose handler has run, whose output is recorded, and
\* which has not been confirmed since.
C15_WaitingIffParked ==
    task.exists => (task.status = "waiting_confirm" <=> ParkedUnconfirmed(task))

\* C15 (amended): status is waiting_confirm only if current_step is a
\* checkpoint step whose handler has run, whose output is recorded, and which
\* has not been confirmed since.
C15_WaitingOnlyIfParked ==
    task.status = "waiting_confirm" => ParkedUnconfirmed(task)

\* A checkpoint handler has just parked the task while another call on the
\* task is suspended in its handler.
C15_Witness ==
    /\ task.status = "waiting_confirm"
    /\ \E p \in Procs : ExecuteFinished(p) /\ req[p].step_id \in CheckpointSteps
    /\ \E q \in Procs : pc[q] = "await"

\* C16: for every step k smaller than current_step the task holds a recorded
\* output of step k.
C16_EarlierOutputsRecorded ==
    task.exists =>
        \A k \in WorkflowStepIds :
            k < task.current_step => Has(task.brief_data, StepOutputKey(k))

IsPrefix(s, t) == Len(s) <= Len(t) /\ \A i \in 1..Len(s) : s[i] = t[i]

\* C17: the task log is append-only: every step, of whichever interleaved
\* call, leaves the entries appended earlier in place, unchanged and in the
\* same order (the old log is a prefix of the new one).
C17_LogAppendOnly ==
    [][IsPrefix(task.think_aloud_logs, task'.think_aloud_logs)]_vars

\* Two overlapping executes have both appended to the log.
C17_Witness ==
    /\ \E p \in Procs : ExecuteFinished(p) /\ req[p].overlap # {}
    /\ \A q \in Procs : pc[q] = "idle"
    /\ Len(task.think_aloud_logs) >= 3

\* C18: when abort completed while an execute was in flight, the execute's
\* result is discarded: as it finishes, the status is still aborted and
\* current_step is what abort left.
C18_AbortDiscardsInFlight ==
    \A p, q \in Procs :
        ( /\ ExecuteFinished(p)
          /\ req[q].op = "abort"
          /\ resp[q].code = "200"
          /\ req[q].id > req[p].id
          /\ req[q].id = calls )
        => /\ task.status = "aborted"
           /\ task.current_step = req[q].task.current_step

\* None of user override, selected sample profile and stored profile exists.
NoStyleGiven(brief) ==
    /\ ~Truthy(brief.user_style_profile)
    /\ ~Truthy(GetDict(brief.selected_sample, "style_profile"))
    /\ ~Truthy(brief.style_profile)

\* C19: the style resolved for a step is never empty, and with no override,
\* no sample profile and no channel profile it is the hard-coded default.
C19_StyleNeverEmpty ==
    /\ style_call.op = "execute_step_5"
       => /\ Truthy(style_call.style_profile)
          /\ ( /\ ~Truthy(GetDict(style_call.selected_sample, "style_profile"))
               /\ ~Truthy(style_call.channel.style_profile)
               /\ ~Truthy(style_call.channel.features) )
             => style_call.style_profile = DefaultStyleProfile
    /\ style_call.op = "execute_step_7"
       => /\ style_call.style_instructions # << >>
          /\ NoStyleGiven(style_call.brief)
             => style_call.effective = DefaultStyleProfile

\* C20: an execute, confirm or abort call on a task that ends in an error
\* response has appended an entry to the task's log before returning.
C20_ErrorsAreLogged ==
    \A p \in Procs :
        ( /\ Mover(p)
          /\ req[p].op \in {"execute", "confirm", "abort"}
          /\ req[p].task.exists
          /\ resp[p].code \in {"400", "404", "500"} )
        => Len(task.think_aloud_logs) > Len(req[p].task.think_aloud_logs)

\* What confirm_checkpoint stores for an input field of the request.
InputStored(t, f) ==
    CASE f = "edited_knowledge" -> t.knowledge_base_data = "edited_knowledge"
      [] f = "selected_topic" -> GetStr(t.brief_data, "selected_topic") = "user_topic"
      [] f = "user_style_profile" ->
             GetStr(t.brief_data, "user_style_profile") = "user_profile"
      [] f = "selected_sample" -> GetStr(t.brief_data, "selected_sample") = "user_sample"
      [] f = "user_materials" -> GetStr(t.brief_data, "user_materials") = "user_materials"
      [] OTHER -> TRUE

\* C21: a successful confirm at checkpoint step N has stored in the task every
\* user input the request supplied for step N (selected topic at 3, style
\* override and selected sample at 5, materials at 6) and has appended a log
\* entry.
C21_ConfirmStoresInputs ==
    \A p \in Procs :
        (ConfirmCalled(p) /\ resp[p].outcome = "ok")
        => /\ \A f \in req[p].supplied : InputStored(task, f)
           /\ Len(task.think_aloud_logs) > Len(req[p].task.think_aloud_logs)

\* C22: in every reachable state the task's current_step is an integer from 1
\* to 9, whatever step number an execute call was given.
C22_CurrentStepInRange ==
    task.exists => task.current_step \in WorkflowStepIds

\* What the handler of step N returned as its output, as the response shows it.
HandlerOutput(N, response) ==
    IF N \in GeneratingSteps THEN response.gen ELSE HandlerResult(N, TRUE, "").output

\* C23: after a successful execute of a checkpoint step k (2, 3, 5 or 6) the
\* value stored as step k's output is the output the handler produced, which
\* is what a later handler reading step k's output receives.
C23_CheckpointOutputStored ==
    \A p \in Procs :
        ( /\ ExecuteFinished(p)
          /\ resp[p].outcome = "ok"
          /\ req[p].step_id \in CheckpointSteps )
        => GetStr(task.brief_data, StepOutputKey(req[p].step_id))
               = HandlerOutput(req[p].step_id, resp[p])

\* The keys of the step outputs recorded in the task.
RecordedOutputs(t) ==
    {k \in WorkflowStepIds : StepOutputKey(k) \in DOMAIN t.brief_data}

\* C24: a step output recorded in brief_data is never removed: in every step
\* of every interleaving of execute, confirm and select-sample calls the keys
\* of the recorded step outputs are still present afterwards.
C24_OutputsNeverRemoved ==
    [][RecordedOutputs(task) \subseteq RecordedOutputs(task')]_vars

\* select-sample has just written to a task that holds a step output.
C24_Witness ==
    /\ last.ev = "select_sample"
    /\ resp[last.proc].code = "200"
    /\ RecordedOutputs(task) # {}

\* The task's user selections.
UserSelections(t) ==
    [ k \in {"selected_topic", "selected_sample", "user_style_profile"} |->
        GetStr(t.brief_data, k) ]

\* C25: the selected topic, the selected sample and the user style override
\* are changed only by confirm and select-sample calls; no step of an execute
\* call changes them.
C25_SelectionsOnlyByUser ==
    [][ UserSelections(task') # UserSelections(task)
        => last'.ev \in {"confirm", "select_sample"} ]_vars

\* C26: once a sample is selected for the task, editing, re-analysing or
\* deleting that style sample leaves the style profile step 7 of the task
\* works with, and its source, unchanged.
C26_SelectionIsSnapshot ==
    [][style_samples' # style_samples => Step7Uses(task)' = Step7Uses(task)]_vars

\* Step 7 has drafted from the selected sample's profile, and the sample's row
\* no longer has that profile (re-analysed, renamed or deleted since).
C26_Witness ==
    /\ style_call.op = "execute_step_7"
    /\ style_call.source = "sample"
    /\ "selected_sample_id" \in DOMAIN task.brief_data
    /\ Step7Uses(task).profile = style_call.effective
    /\ SampleSnapshot(get_style_sample_by_id(task.brief_data["selected_sample_id"]))
           # task.brief_data["selected_sample"]

\* The provenance keys of a list of materials.
SourceKeys(materials) == {SourceKey(materials[i]) : i \in DOMAIN materials}

\* The position of the item that represents key K: the highest similarity of
\* its group, the first-seen among equals.
BestOfSource(materials, K) ==
    CHOOSE i \in DOMAIN materials :
        /\ SourceKey(materials[i]) = K
        /\ \A j \in DOMAIN materials :
               SourceKey(materials[j]) = K
               => \/ materials[j].similarity < materials[i].similarity
                  \/ (materials[j].similarity = materials[i].similarity /\ i <= j)

\* C27: dedupe_by_source outputs exactly one item per provenance key (the
\* source, or the id when there is no source): the highest-scored item of the
\* key's group, the first-seen on a tie; so items with distinct keys are all
\* kept, and nothing else is output.
C27_OnePerSource ==
    curation.op = "dedupe_by_source"
    => LET in == curation.materials
           out == curation.result
       IN  /\ Len(out) = Cardinality(SourceKeys(in))
           /\ \A K \in SourceKeys(in) :
                  \E k \in DOMAIN out :
                      /\ out[k] = in[BestOfSource(in, K)]
                      /\ \A x \in DOMAIN out : SourceKey(out[x]) = K => x = k

\* Two items of one source tie and the earlier one survives, an item without
\* source is kept beside it, and the output is shorter than the input.
C27_Witness ==
    /\ curation.op = "dedupe_by_source"
    /\ \E i, j \in DOMAIN curation.materials :
           /\ i < j
           /\ curation.materials[i].source # ""
           /\ curation.materials[i].source = curation.materials[j].source
           /\ curation.materials[i].similarity = curation.materials[j].similarity
           /\ curation.materials[i].id \in Survivors
    /\ \E i \in DOMAIN curation.materials :
           curation.materials[i].source = "" /\ curation.materials[i].id \in Survivors
    /\ Len(curation.result) < Len(curation.materials)

\* C29: after content dedup no two items of the output are more similar than
\* the threshold, whatever the input order and also when similarity is not
\* transitive.
C29_NoSimilarPairLeft ==
    curation.op = "dedupe_by_content_similarity"
    => \A a, b \in DOMAIN curation.result :
           a # b => ~IsDuplicate(curation.result[a].content,
                                 curation.result[b].content, SimilarityThresholdPct)

\* C30: for a task whose style inputs are the same at both calls, step 8
\* checks the draft against the profile step 7 drafted from; in particular
\* against the selected sample's profile when step 7 used that.
C30_SameStyleSource ==
    style_call.op = "execute_step_8" => style_call.checked = style_call.effective

\* The first invocation that succeeds under the plan, 0 when none does.
FirstOk(plan) ==
    IF \E i \in DOMAIN plan : plan[i] = "ok"
    THEN CHOOSE i \in DOMAIN plan :
             plan[i] = "ok" /\ \A j \in 1..(i - 1) : plan[j] # "ok"
    ELSE 0

\* What C28 requires of a state of a db_retry call.
RetryWithinBound ==
    /\ retry.invocations <= MAX_RETRIES
    /\ retry.pc = "returned" =>
           /\ retry.invocations = FirstOk(retry.plan)
           /\ retry.result = FuncResult(retry.plan, retry.invocations)
           /\ retry.result.kind = "ok"
    /\ retry.pc = "raised" =>
           /\ retry.invocations = MAX_RETRIES
           /\ \A i \in 1..MAX_RETRIES : retry.plan[i] # "ok"
           /\ retry.result = FuncResult(retry.plan, MAX_RETRIES)

\* C28: a call through db_retry invokes the wrapped operation at most 3
\* times; when it has returned, it has returned the result of the first
\* invocation that succeeded and has made no invocation after it; when it has
\* raised, 3 invocations in a row have failed and the error raised is that of
\* the third; and every call eventually returns or raises.
C28_RetryBoundedAndTerminates ==
    /\ [](retry.op = "db_retry" => RetryWithinBound)
    /\ <>(retry.op = "db_retry" => retry.pc \in {"returned", "raised"})

\* The wrapper has raised after three failures the last of which differs from
\* the one before it.
C28_Witness ==
    /\ retry.op = "db_retry"
    /\ retry.pc = "raised"
    /\ retry.invocations = MAX_RETRIES
    /\ retry.plan[MAX_RETRIES] # retry.plan[MAX_RETRIES - 1]
    /\ retry.result.kind = retry.plan[MAX_RETRIES]

====
